---- MODULE Spec2Model ----
(***************************************************************************)
(* Crisis-risk classification pipeline of freemind-ai                      *)
(* (backend/apps/chat/crisis_detection.py), with get_ai_response           *)
(* (backend/apps/chat/ai_response.py) and the send_message handler         *)
(* (backend/apps/chat/views.py) that calls both.                           *)
(*                                                                         *)
(* Messages are strings; Python's `in`, lower() and strip() are modelled   *)
(* character by character.  Confidences are integers in hundredths         *)
(* (0.6 is 60).  The spaCy analyzer is an external library: it is modelled *)
(* word by word with the lemma table the source's comments document, and   *)
(* its failure is an input of the call.                                    *)
(***************************************************************************)
EXTENDS Integers, Sequences, FiniteSets, TLC

VARIABLES
    crisis_keywords,    \* module global CRISIS_KEYWORDS
    metaphorical_contexts, \* module global METAPHORICAL_CONTEXTS
    pc,                 \* position in the current call
    message,            \* argument `message`
    nlp_fails,          \* whether the analyzer raises during this call
    risk_original,      \* detect_crisis_enhanced: local risk_original ("" = not assigned)
    second_pass,        \* detect_crisis_enhanced: whether line 188 was executed
    lemmatized_message, \* detect_crisis_enhanced: local lemmatized_message
    risk_lemmatized,    \* detect_crisis_enhanced: local risk_lemmatized ("" = not assigned)
    keyword_risk,       \* detect_crisis_with_emotion: keyword_risk as assigned at line 288
    emotion_data,       \* argument `emotion_data`
    primary_emotion,    \* locals read from emotion_data
    emotion_confidence,
    urgency,
    triggers,           \* result['triggers']
    risk_level,         \* result['risk_level']
    confidence,         \* result['confidence'], in hundredths
    recommendation,     \* result['recommendation']
    crisis_response,    \* what get_crisis_response returned (<<>> = None)
    first_call,         \* history: an earlier call of detect_crisis_enhanced
                        \* with what it returned (<<>> = none recorded)
    groq_client,        \* ai_response.py module global: FALSE = None
    max_retries,        \* get_ai_response: argument of the innermost call
    retries_given,      \* get_ai_response: max_retries of the outermost call
    attempts,           \* get_ai_response: times the try block was entered
    completion,         \* get_ai_response: how the latest try block went
                        \* (<<>> = not entered)
    ai_response,        \* what get_ai_response returned ("" = nothing yet)
    in_request,         \* whether send_message is running
    http_response,      \* send_message: the Response returned (<<>> = none;
                        \* status 500 = an exception left the view)
    chat_message        \* send_message: the ChatMessage row created (<<>> = none)

\* locals of get_ai_response
ai_vars == <<max_retries, retries_given, attempts, completion, ai_response>>

\* state of a send_message request
request_vars == <<in_request, http_response, chat_message>>

vars == <<crisis_keywords, metaphorical_contexts, pc, message, nlp_fails, risk_original, second_pass, lemmatized_message,
          risk_lemmatized, keyword_risk, emotion_data, primary_emotion,
          emotion_confidence, urgency, triggers, risk_level, confidence,
          recommendation, crisis_response, first_call, groq_client, ai_vars,
          request_vars>>

(***************************************************************************)
(* Bounds                                                                  *)
(***************************************************************************)
\* A message is made of at most MaxWords fragments of Vocabulary.
MaxWords == 3
\* A message of the runs that repeat detect_crisis_enhanced is made of at
\* most MaxRepeatWords fragments of Vocabulary.
MaxRepeatWords == 1
\* get_ai_response is called with max_retries from 0 to MaxRetries.
MaxRetries == 2

(***************************************************************************)
(* The lexicon                                                             *)
(***************************************************************************)
\* Adjacent Python string literals are concatenated: 'too much to handle'
\* 'nobody care' (no comma between them) is one list element.
CRISIS_KEYWORDS ==
    [CRITICAL |->
        [english |-> <<
            "kill myself", "commit suicide", "end my life", "take my life",
            "suicide plan", "how to die", "way to die", "end it all",
            "be off dead", "world without I",
            "say goodbye", "final goodbye", "last message",
            "no reason to live", "want to die", "go to die", "plan to die",
            "hang myself", "overdose", "jump off", "no reason to live",
            "buy pill", "write note", "final arrangement",
            "feel unstable" >>,
         pidgin |-> <<
            "i wan die", "make i just die", "i go kill myself",
            "make i comot for this world", "i don taya for life",
            "nothing dey for me again", "i fit just end am",
            "make i just finish am", "i go end myself", "wan kpai", "kpai myself" >>],
     HIGH |->
        [english |-> <<
            "hurt myself", "cut myself", "harm myself", "self harm",
            "burn myself", "punish myself",
            "hate myself", "deserve pain", "want to hurt",
            "no point live", "life be meaningless", "can not go on",
            "give up everything", "nothing matter",
            "no hope leave", "everyone hate I",
            "burden to everyone", "world hate I",
            "disappear forever", "run away forever", "leave forever",
            "can not do this anymore", "can not take it anymore",
            "everybody good without I", "waste of space",
            "can't go on", "no hope", "give up everything",
            "everyone hates me", "worthless",
            "hurt myself", "self harm", "cut myself",
            "this country don finish me", "nobody go miss me" >>,
         pidgin |-> <<
            "nobody go miss me", "this country don finish me",
            "i no fit continue", "wahala too much abeg",
            "make i just disappear", "person wey born me no happy" >>],
     MEDIUM |->
        [english |-> <<
            "feel hopeless", "very depressed", "extremely anxious",
            "panic attack", "can not cope", "overwhelm completely",
            "tired of try", "nothing work", "give up",
            "do not want to wake up", "wish i be not here",
            "wish i could sleep forever", "tired of life",
            "feel hopeless", "very depressed", "extremely anxious",
            "panic attack", "can't cope", "overwhelmed",
            "nothing matters", "tired of trying", "too much to handlenobody care",
            "all alone", "no one understand",
            "push everyone away", "isolate myself",
            "nobody listen", "invisible to everyone" >>,
         pidgin |-> <<
            "this life no balance", "e don do for me",
            "wetin i dey do for this world", "i don tire" >>]]

\* The context categories.
METAPHORICAL_CONTEXTS ==
    [academic |-> <<
        "exam", "test", "assignment", "deadline", "interview",
        "presentation", "project", "quiz", "homework", "study" >>,
     entertainment |-> <<
        "movie", "film", "show", "game", "video", "song",
        "book", "story", "comedy", "funny", "laugh" >>,
     positive |-> <<
        "excited", "can not wait", "look forward", "eager",
        "thrilled", "amazing", "wonderful", "great" >>,
     figurative |-> <<
        "die to see", "kill I", "to die for", "dead tired",
        "kill it", "slay", "murder", "destroy" >>]

\* risk_levels = ['SAFE', 'MEDIUM', 'HIGH', 'CRITICAL'] and list.index on it
risk_levels == <<"SAFE", "MEDIUM", "HIGH", "CRITICAL">>

Index(level) == CHOOSE i \in 1..Len(risk_levels) : risk_levels[i] = level

(***************************************************************************)
(* Python string operations                                                *)
(***************************************************************************)
UpperLetters == "ABCDEFGHIJKLMNOPQRSTUVWXYZ"
LowerLetters == "abcdefghijklmnopqrstuvwxyz"

CharAt(s, i) == SubSeq(s, i, i)

\* str.lower() of one character
LowerChar(c) ==
    IF \E i \in 1..Len(UpperLetters) : CharAt(UpperLetters, i) = c
    THEN CharAt(LowerLetters, CHOOSE i \in 1..Len(UpperLetters) : CharAt(UpperLetters, i) = c)
    ELSE c

\* Mutant of Lower: the text is used as it is.
Lower_AsIs(s) == s

\* str.lower()
RECURSIVE Lower(_)
Lower(s) == IF s = "" THEN "" ELSE LowerChar(CharAt(s, 1)) \o Lower(SubSeq(s, 2, Len(s)))

\* str.strip(): the only whitespace of the modelled alphabet is the space
RECURSIVE LStrip(_)
LStrip(s) == IF s # "" /\ CharAt(s, 1) = " " THEN LStrip(SubSeq(s, 2, Len(s))) ELSE s

RECURSIVE RStrip(_)
RStrip(s) == IF s # "" /\ CharAt(s, Len(s)) = " " THEN RStrip(SubSeq(s, 1, Len(s) - 1)) ELSE s

Strip(s) == RStrip(LStrip(s))

\* keyword in text
Contains(keyword, text) ==
    \E i \in 1..(Len(text) - Len(keyword) + 1) :
        SubSeq(text, i, i + Len(keyword) - 1) = keyword

\* " ".join(words)
RECURSIVE Join(_)
Join(words) ==
    IF words = <<>> THEN ""
    ELSE IF Len(words) = 1 THEN words[1]
    ELSE words[1] \o " " \o Join(Tail(words))

\* the words of text between single spaces
RECURSIVE SplitFrom(_, _, _)
SplitFrom(text, i, word) ==
    IF i > Len(text) THEN <<word>>
    ELSE IF CharAt(text, i) = " " THEN <<word>> \o SplitFrom(text, i + 1, "")
    ELSE SplitFrom(text, i + 1, word \o CharAt(text, i))

Split(text) == SplitFrom(text, 1, "")

(***************************************************************************)
(* Text Normalizer                                                         *)
(***************************************************************************)
\* token.lemma_ of the analyzer, for the base forms the source documents
\* ("killing" -> "kill", "me" -> "I", "looking" -> "look", ...); a word
\* already in base form is its own lemma.
Lemma(word) ==
    CASE word = "killing"   -> "kill"
      [] word = "wanted"    -> "want"
      [] word = "hurting"   -> "hurt"
      [] word = "feeling"   -> "feel"
      [] word = "looking"   -> "look"
      [] word = "studying"  -> "study"
      [] word = "dying"     -> "die"
      [] word = "ways"      -> "way"
      [] word = "matters"   -> "matter"
      [] word = "cares"     -> "care"
      [] word = "am"        -> "be"
      [] word = "is"        -> "be"
      [] word = "was"       -> "be"
      [] word = "me"        -> "I"
      [] word = "i"         -> "I"
      [] OTHER              -> word

RECURSIVE Lemmas(_)
Lemmas(words) == IF words = <<>> THEN <<>> ELSE <<Lemma(Head(words))>> \o Lemmas(Tail(words))

\* lemmatize_text(text); `fails` is whether nlp(...) raises
lemmatize_text(text, fails) ==
    IF fails THEN text
    ELSE Join(Lemmas(Split(Lower(text))))

(***************************************************************************)
(* Keyword Risk Scorer                                                     *)
(***************************************************************************)
\* Mutant of check_metaphorical_context: only the academic category is
\* looked at.
check_metaphorical_context_AcademicOnly(msg) ==
    \E i \in 1..Len(metaphorical_contexts.academic) :
        Contains(metaphorical_contexts.academic[i], msg)

\* check_metaphorical_context(message)
check_metaphorical_context(msg) ==
    \E key \in DOMAIN metaphorical_contexts :
        \E i \in 1..Len(metaphorical_contexts[key]) :
            Contains(metaphorical_contexts[key][i], msg)

\* CRISIS_KEYWORDS[level]['english'] + CRISIS_KEYWORDS[level]['pidgin']
Keywords(level) == crisis_keywords[level].english \o crisis_keywords[level].pidgin

\* whether the loop over Keywords(level) reaches a keyword in the text
AnyKeyword(level, text) ==
    \E i \in 1..Len(Keywords(level)) : Contains(Keywords(level)[i], text)

\* line 224: not message or len(message.strip()) <= 3, the texts for which
\* detect_crisis_level returns before it scans
ScorerReturnsAtOnce(msg) == msg = "" \/ Len(Strip(msg)) <= 3

\* Mutant of detect_crisis_level: the HIGH keywords are scanned before the
\* CRITICAL ones.
detect_crisis_level_HighFirst(msg) ==
    IF ScorerReturnsAtOnce(msg) THEN "SAFE"
    ELSE LET message_lower == Lower(msg)
             is_metaphorical == check_metaphorical_context(message_lower)
         IN  IF AnyKeyword("HIGH", message_lower)
             THEN (IF is_metaphorical THEN "MEDIUM" ELSE "HIGH")
             ELSE IF AnyKeyword("CRITICAL", message_lower)
             THEN (IF is_metaphorical THEN "HIGH" ELSE "CRITICAL")
             ELSE IF AnyKeyword("MEDIUM", message_lower)
             THEN (IF is_metaphorical THEN "SAFE" ELSE "MEDIUM")
             ELSE "SAFE"

\* Mutant of detect_crisis_level: the MEDIUM keywords are scanned before the
\* HIGH ones.
detect_crisis_level_MediumFirst(msg) ==
    IF ScorerReturnsAtOnce(msg) THEN "SAFE"
    ELSE LET message_lower == Lower(msg)
             is_metaphorical == check_metaphorical_context(message_lower)
         IN  IF AnyKeyword("CRITICAL", message_lower)
             THEN (IF is_metaphorical THEN "HIGH" ELSE "CRITICAL")
             ELSE IF AnyKeyword("MEDIUM", message_lower)
             THEN (IF is_metaphorical THEN "SAFE" ELSE "MEDIUM")
             ELSE IF AnyKeyword("HIGH", message_lower)
             THEN (IF is_metaphorical THEN "MEDIUM" ELSE "HIGH")
             ELSE "SAFE"

\* Mutant of detect_crisis_level: a metaphorical context does not suppress a
\* MEDIUM match.
detect_crisis_level_MetaphorFallsThrough(msg) ==
    IF ScorerReturnsAtOnce(msg) THEN "SAFE"
    ELSE LET message_lower == Lower(msg)
             is_metaphorical == check_metaphorical_context(message_lower)
         IN  IF AnyKeyword("CRITICAL", message_lower)
             THEN (IF is_metaphorical THEN "HIGH" ELSE "CRITICAL")
             ELSE IF AnyKeyword("HIGH", message_lower)
             THEN (IF is_metaphorical THEN "MEDIUM" ELSE "HIGH")
             ELSE IF AnyKeyword("MEDIUM", message_lower)
             THEN "MEDIUM"
             ELSE "SAFE"

\* detect_crisis_level(message)
detect_crisis_level(msg) ==
    IF ScorerReturnsAtOnce(msg) THEN "SAFE"
    ELSE LET message_lower == Lower(msg)
             is_metaphorical == check_metaphorical_context(message_lower)
         IN  IF AnyKeyword("CRITICAL", message_lower)
             THEN (IF is_metaphorical THEN "HIGH" ELSE "CRITICAL")
             ELSE IF AnyKeyword("HIGH", message_lower)
             THEN (IF is_metaphorical THEN "MEDIUM" ELSE "HIGH")
             ELSE IF AnyKeyword("MEDIUM", message_lower)
             THEN (IF is_metaphorical THEN "SAFE" ELSE "MEDIUM")
             ELSE "SAFE"

(***************************************************************************)
(* Dual-Pass Reconciler                                                    *)
(***************************************************************************)
\* Mutant of MoreSevere: the second pass's tier replaces the first's.
MoreSevere_TakesSecond(original, second) == second

\* lines 190-196 and 200: the lemmatized tier if its index is greater, else
\* the original tier
MoreSevere(original, second) ==
    LET idx_original == Index(original)
        idx_lemmatized == Index(second)
    IN  IF idx_lemmatized > idx_original THEN second ELSE original

\* Mutant of detect_crisis_enhanced: a HIGH or CRITICAL tier of the raw text
\* does not return at once; the lemmatized pass is made for it too.
detect_crisis_enhanced_NoFastPath(msg, fails) ==
    LET unassigned == [risk_original |-> "", second_pass |-> FALSE,
                       lemmatized_message |-> "", risk_lemmatized |-> ""]
    IN
    IF msg = "" \/ Len(Strip(msg)) < 3
    THEN [ret |-> "SAFE"] @@ unassigned
    ELSE LET original == detect_crisis_level(msg)
             lemmatized == lemmatize_text(msg, fails)
         IN  IF lemmatized # Lower(msg)
             THEN LET second == detect_crisis_level(lemmatized)
                  IN  [ret |-> MoreSevere(original, second),
                       risk_original |-> original, second_pass |-> TRUE,
                       lemmatized_message |-> lemmatized, risk_lemmatized |-> second]
             ELSE [ret |-> original, risk_original |-> original,
                   lemmatized_message |-> lemmatized] @@ unassigned

\* Mutant of detect_crisis_enhanced: the test of line 187 is inverted, the
\* lemmatized text is scored only when it equals the lower-cased message.
detect_crisis_enhanced_SkipInverted(msg, fails) ==
    LET unassigned == [risk_original |-> "", second_pass |-> FALSE,
                       lemmatized_message |-> "", risk_lemmatized |-> ""]
    IN
    IF msg = "" \/ Len(Strip(msg)) < 3
    THEN [ret |-> "SAFE"] @@ unassigned
    ELSE LET original == detect_crisis_level(msg) IN
         IF original \in {"CRITICAL", "HIGH"}
         THEN [ret |-> original, risk_original |-> original] @@ unassigned
         ELSE LET lemmatized == lemmatize_text(msg, fails) IN
              IF lemmatized = Lower(msg)
              THEN LET second == detect_crisis_level(lemmatized)
                   IN  [ret |-> MoreSevere(original, second),
                        risk_original |-> original, second_pass |-> TRUE,
                        lemmatized_message |-> lemmatized, risk_lemmatized |-> second]
              ELSE [ret |-> original, risk_original |-> original,
                    lemmatized_message |-> lemmatized] @@ unassigned

\* detect_crisis_enhanced(message): the value returned (ret) and the locals
\* the call assigned.  Nothing in the try block raises for a string message
\* (lemmatize_text catches the analyzer's exception itself), so the except
\* branch of line 197 is not taken.
detect_crisis_enhanced(msg, fails) ==
    LET unassigned == [risk_original |-> "", second_pass |-> FALSE,
                       lemmatized_message |-> "", risk_lemmatized |-> ""]
    IN
    IF msg = "" \/ Len(Strip(msg)) < 3
    THEN [ret |-> "SAFE"] @@ unassigned
    ELSE LET original == detect_crisis_level(msg) IN
         IF original \in {"CRITICAL", "HIGH"}
         THEN [ret |-> original, risk_original |-> original] @@ unassigned
         ELSE LET lemmatized == lemmatize_text(msg, fails) IN
              IF lemmatized # Lower(msg)
              THEN LET second == detect_crisis_level(lemmatized)
                   IN  [ret |-> MoreSevere(original, second),
                        risk_original |-> original, second_pass |-> TRUE,
                        lemmatized_message |-> lemmatized, risk_lemmatized |-> second]
              ELSE [ret |-> original, risk_original |-> original,
                    lemmatized_message |-> lemmatized] @@ unassigned

(***************************************************************************)
(* Trigger Extractor                                                       *)
(***************************************************************************)
\* the (risk_level, keyword) pairs in the order the three nested loops of
\* identify_triggers visit them
TriggerEntries ==
    LET Tagged(level, lang) ==
            [i \in 1..Len(crisis_keywords[level][lang]) |->
                [risk_level |-> level, keyword |-> crisis_keywords[level][lang][i]]]
    IN  Tagged("CRITICAL", "english") \o Tagged("CRITICAL", "pidgin") \o
        Tagged("HIGH", "english") \o Tagged("HIGH", "pidgin") \o
        Tagged("MEDIUM", "english") \o Tagged("MEDIUM", "pidgin")

\* f"{risk_level}: '{keyword}'"
FormatTrigger(entry) == entry.risk_level \o ": '" \o entry.keyword \o "'"

\* Mutant of FirstFive: the list is not cut.
FirstFive_Uncut(s) == s

\* triggers[:5]
FirstFive(s) == SubSeq(s, 1, IF Len(s) < 5 THEN Len(s) ELSE 5)

\* Mutant of identify_triggers: the operands of `in` are exchanged.
identify_triggers_OperandsSwapped(msg) ==
    LET message_lower == Lower(msg)
        Matches(entry) == Contains(message_lower, entry.keyword)
        found == SelectSeq(TriggerEntries, Matches)
    IN  FirstFive([i \in 1..Len(found) |-> FormatTrigger(found[i])])

\* identify_triggers(message)
identify_triggers(msg) ==
    LET message_lower == Lower(msg)
        Matches(entry) == Contains(entry.keyword, message_lower)
        found == SelectSeq(TriggerEntries, Matches)
    IN  FirstFive([i \in 1..Len(found) |-> FormatTrigger(found[i])])

(***************************************************************************)
(* Emotion Fusion Engine                                                   *)
(***************************************************************************)
\* dict.get(key, default)
Get(d, key, default) == IF key \in DOMAIN d THEN d[key] ELSE default

\* Mutant of FuseHighCritical: the thresholds are inclusive.
FuseHighCritical_Inclusive(risk, primary, conf) ==
    IF primary \in {"fear", "sadness"} /\ conf >= 60
    THEN [risk_level |-> risk, confidence |-> 90]
    ELSE IF primary = "anger" /\ conf >= 70
    THEN [risk_level |-> risk, confidence |-> 75]
    ELSE [risk_level |-> risk, confidence |-> 60]

\* Mutant of FuseHighCritical: confident joy takes a CRITICAL tier down to
\* HIGH.
FuseHighCritical_JoyLowers(risk, primary, conf) ==
    IF primary \in {"fear", "sadness"} /\ conf > 60
    THEN [risk_level |-> risk, confidence |-> 90]
    ELSE IF primary = "anger" /\ conf > 70
    THEN [risk_level |-> risk, confidence |-> 75]
    ELSE IF primary = "joy" /\ conf > 70 /\ risk = "CRITICAL"
    THEN [risk_level |-> "HIGH", confidence |-> 60]
    ELSE [risk_level |-> risk, confidence |-> 60]

\* lines 301-310: keyword_risk in ['HIGH', 'CRITICAL']
FuseHighCritical(risk, primary, conf) ==
    IF primary \in {"fear", "sadness"} /\ conf > 60
    THEN [risk_level |-> risk, confidence |-> 90]
    ELSE IF primary = "anger" /\ conf > 70
    THEN [risk_level |-> risk, confidence |-> 75]
    ELSE [risk_level |-> risk, confidence |-> 60]

\* Mutant of FuseMedium: urgency or emotion alone upgrades.
FuseMedium_Either(risk, primary, urg) ==
    IF urg = "high" \/ primary \in {"fear", "sadness"}
    THEN [risk_level |-> "HIGH", confidence |-> 70]
    ELSE [risk_level |-> risk, confidence |-> 50]

\* lines 311-317: keyword_risk == 'MEDIUM'
FuseMedium(risk, primary, urg) ==
    IF urg = "high" /\ primary \in {"fear", "sadness"}
    THEN [risk_level |-> "HIGH", confidence |-> 70]
    ELSE [risk_level |-> risk, confidence |-> 50]

\* Mutant of FuseSafe: the upgrade goes to HIGH, as the MEDIUM branch's does.
FuseSafe_UpgradesToHigh(risk, primary, urg) ==
    IF urg = "high" /\ primary \in {"fear", "sadness"}
    THEN [risk_level |-> "HIGH", confidence |-> 40]
    ELSE [risk_level |-> risk, confidence |-> 95]

\* Mutant of FuseSafe: any urgency above low upgrades.
FuseSafe_AnyUrgency(risk, primary, urg) ==
    IF urg # "low" /\ primary \in {"fear", "sadness"}
    THEN [risk_level |-> "MEDIUM", confidence |-> 40]
    ELSE [risk_level |-> risk, confidence |-> 95]

\* lines 319-325: else (SAFE)
FuseSafe(risk, primary, urg) ==
    IF urg = "high" /\ primary \in {"fear", "sadness"}
    THEN [risk_level |-> "MEDIUM", confidence |-> 40]
    ELSE [risk_level |-> risk, confidence |-> 95]

\* lines 301-325 of detect_crisis_with_emotion
EmotionFusion(risk, primary, conf, urg) ==
    IF risk \in {"HIGH", "CRITICAL"} THEN FuseHighCritical(risk, primary, conf)
    ELSE IF risk = "MEDIUM" THEN FuseMedium(risk, primary, urg)
    ELSE FuseSafe(risk, primary, urg)

\* Mutant of get_risk_recommendation: the emotion signal it is passed takes
\* part in the choice.
get_risk_recommendation_UsesEmotion(level, emotion) ==
    IF level = "CRITICAL" THEN "IMMEDIATE_CRISIS_RESPONSE"
    ELSE IF level = "HIGH" \/ Get(emotion, "urgency", "low") = "high"
    THEN "URGENT_SUPPORT_NEEDED"
    ELSE IF level = "MEDIUM" THEN "ELEVATED_CONCERN"
    ELSE "STANDARD_THERAPEUTIC_RESPONSE"

\* get_risk_recommendation(risk_level, emotion_data)
get_risk_recommendation(level, emotion) ==
    IF level = "CRITICAL" THEN "IMMEDIATE_CRISIS_RESPONSE"
    ELSE IF level = "HIGH" THEN "URGENT_SUPPORT_NEEDED"
    ELSE IF level = "MEDIUM" THEN "ELEVATED_CONCERN"
    ELSE "STANDARD_THERAPEUTIC_RESPONSE"

\* A confidence that is present but null (Python's None): it is not a
\* number, and `None > 0.6` raises TypeError.
None == -1

\* Whether lines 301-307 compare a confidence that is not a number: the
\* comparison is evaluated only after `primary_emotion in [...]` or
\* `primary_emotion == 'anger'` held.
ConfidenceComparisonRaises(risk, primary, conf) ==
    /\ risk \in {"HIGH", "CRITICAL"}
    /\ primary \in {"fear", "sadness", "anger"}
    /\ conf = None

(***************************************************************************)
(* Crisis Response Resolver                                                *)
(***************************************************************************)
Resource(name, contact, available, type) ==
    [name |-> name, contact |-> contact, available |-> available, type |-> type]

\* The three bundles; of each response text the first sentence is kept.
CriticalBundle ==
    [response |-> "I'm truly concerned about what you're sharing with me.",
     resources |-> <<
        Resource("National Emergency", "112 or 767", "24/7", "emergency"),
        Resource("Mentally Aware Nigeria (MANI)", "+2348091116264", "24/7", "crisis_line"),
        Resource("LUTH Psychiatry Emergency", "+234 1 593 6394", "24/7", "hospital"),
        Resource("She Writes Woman Crisis Line", "+234 813 951 3888",
                 "Mon-Fri 10am-6pm", "crisis_line") >>,
     escalate |-> TRUE,
     immediate_action_required |-> TRUE]

HighBundle ==
    [response |-> "I hear you, and I can sense that you're going through something really difficult right now.",
     resources |-> <<
        Resource("Mentally Aware Nigeria (MANI)", "+234 809 210 6493", "24/7", "crisis_line"),
        Resource("She Writes Woman", "+234 813 951 3888", "Mon-Fri 10am-6pm", "support_line"),
        Resource("The Agbeyega Care Centre", "+234 803 333 7574",
                 "By appointment", "therapy_center") >>,
     escalate |-> TRUE,
     immediate_action_required |-> FALSE]

MediumBundle ==
    [response |-> "It sounds like you're dealing with some challenging feelings right now, and I appreciate you sharing that with me.",
     resources |-> <<
        Resource("Mental Health Foundation Nigeria", "+234 814 652 3537",
                 "Mon-Fri 9am-5pm", "information") >>,
     escalate |-> FALSE,
     immediate_action_required |-> FALSE]

\* Mutant of get_crisis_response: the MEDIUM branch is missing.
get_crisis_response_NoMediumBranch(level) ==
    IF level = "CRITICAL" THEN CriticalBundle
    ELSE IF level = "HIGH" THEN HighBundle
    ELSE <<>>

\* get_crisis_response(risk_level); None is the empty function
get_crisis_response(level) ==
    IF level = "CRITICAL" THEN CriticalBundle
    ELSE IF level = "HIGH" THEN HighBundle
    ELSE IF level = "MEDIUM" THEN MediumBundle
    ELSE <<>>

(***************************************************************************)
(* Inputs                                                                  *)
(***************************************************************************)
\* The fragments messages are made of, in the order they may follow each
\* other; the two empty fragments give leading and trailing whitespace.
Vocabulary ==
    << "", "studying", "I want to", "die", "kill myself", "i wan die",
       "killing myself", "give up everything", "feel hopeless",
       "looking forward", "movie", "ok", "" >>

RECURSIVE Pick(_)
Pick(S) ==
    IF S = {} THEN <<>>
    ELSE LET m == CHOOSE x \in S : \A y \in S : x <= y
         IN  <<Vocabulary[m]>> \o Pick(S \ {m})

Messages ==
    { Join(Pick(S)) : S \in {T \in SUBSET (1..Len(Vocabulary)) : Cardinality(T) <= MaxWords} }

\* The messages of the runs that call detect_crisis_enhanced repeatedly.
RepeatMessages ==
    { Join(Pick(S)) :
        S \in {T \in SUBSET (1..Len(Vocabulary)) : Cardinality(T) <= MaxRepeatWords} }

\* Emotion signals: every field may be missing, and a confidence that is
\* present may be null.
PrimaryEmotions == {"fear", "sadness", "anger", "joy"}
Confidences == {60, 61, 70, 71}
Urgencies == {"low", "medium", "high"}

EmotionSignals ==
    LET P == {<<>>} \cup {[primary_emotion |-> p] : p \in PrimaryEmotions}
        C == {<<>>} \cup {[confidence |-> c] : c \in Confidences \cup {None}}
        U == {<<>>} \cup {[urgency |-> u] : u \in Urgencies}
    IN  {p @@ c @@ u : p \in P, c \in C, u \in U}

\* Lists standing for what identify_triggers may return, in the runs that
\* take its result as arbitrary.
TriggerLists ==
    { <<>>,
      <<"CRITICAL: 'kill myself'">>,
      <<"HIGH: 'give up everything'", "HIGH: 'give up everything'", "MEDIUM: 'give up'">>,
      <<"MEDIUM: 'feel hopeless'", "MEDIUM: 'feel hopeless'">> }

\* The arguments get_crisis_response is applied to: the four tiers and
\* strings that are no tier.
ResponseLevels == {"CRITICAL", "HIGH", "MEDIUM", "SAFE", "critical", "UNKNOWN", ""}

(***************************************************************************)
(* The state machine: calls of detect_crisis_with_emotion,                 *)
(* detect_crisis_enhanced and get_crisis_response                          *)
(***************************************************************************)
InitGiven(client) ==
    /\ crisis_keywords = CRISIS_KEYWORDS
    /\ metaphorical_contexts = METAPHORICAL_CONTEXTS
    /\ pc = "idle"
    /\ message = ""
    /\ nlp_fails = FALSE
    /\ risk_original = ""
    /\ second_pass = FALSE
    /\ lemmatized_message = ""
    /\ risk_lemmatized = ""
    /\ keyword_risk = ""
    /\ emotion_data = <<>>
    /\ primary_emotion = ""
    /\ emotion_confidence = 0
    /\ urgency = ""
    /\ triggers = <<>>
    /\ risk_level = ""
    /\ confidence = 0
    /\ recommendation = ""
    /\ crisis_response = <<>>
    /\ first_call = <<>>
    /\ groq_client = client
    /\ max_retries = 0
    /\ retries_given = 0
    /\ attempts = 0
    /\ completion = <<>>
    /\ ai_response = ""
    /\ in_request = FALSE
    /\ http_response = <<>>
    /\ chat_message = <<>>

\* the modules are loaded with GROQ_API_KEY set: groq_client is a client
Init == InitGiven(TRUE)

\* the modules are loaded; the Groq constructor of lines 23-26 of
\* ai_response.py has succeeded or has raised, leaving groq_client None
InitAnyClient == \E client \in BOOLEAN : InitGiven(client)

\* Mutant of KeywordPass: the scan pops the keywords off the lists of the
\* module's dictionary instead of a copy.
KeywordPass_ConsumesKeywords(msg, fails) ==
    /\ pc = "idle"
    /\ LET run == detect_crisis_enhanced(msg, fails) IN
        /\ keyword_risk' = run.ret
        /\ risk_original' = run.risk_original
        /\ second_pass' = run.second_pass
        /\ lemmatized_message' = run.lemmatized_message
        /\ risk_lemmatized' = run.risk_lemmatized
    /\ message' = msg
    /\ nlp_fails' = fails
    /\ pc' = "fusion"
    /\ crisis_keywords' =
          [level \in DOMAIN crisis_keywords |->
              [english |-> <<>>, pidgin |-> <<>>]]
    /\ UNCHANGED <<metaphorical_contexts, emotion_data, primary_emotion,
                   emotion_confidence, urgency, triggers, risk_level, confidence,
                   recommendation, crisis_response, first_call>>
    /\ UNCHANGED <<groq_client, ai_vars, request_vars>>

\* keyword_risk = detect_crisis_enhanced(message) (line 288; line 553 in
\* the loop over lemma_test_cases)
KeywordPass(msg, fails) ==
    /\ pc = "idle"
    /\ LET run == detect_crisis_enhanced(msg, fails) IN
        /\ keyword_risk' = run.ret
        /\ risk_original' = run.risk_original
        /\ second_pass' = run.second_pass
        /\ lemmatized_message' = run.lemmatized_message
        /\ risk_lemmatized' = run.risk_lemmatized
    /\ message' = msg
    /\ nlp_fails' = fails
    /\ pc' = "fusion"
    /\ UNCHANGED <<crisis_keywords, metaphorical_contexts, emotion_data,
                   primary_emotion, emotion_confidence, urgency, triggers,
                   risk_level, confidence, recommendation, crisis_response,
                   first_call>>
    /\ UNCHANGED <<groq_client, ai_vars, request_vars>>

\* Mutant of Assessment: a SAFE tier with triggers found is reported as
\* MEDIUM.
Assessment_TriggersRaiseSafe(risk, emotion, found) ==
    LET fused == EmotionFusion(risk, Get(emotion, "primary_emotion", "neutral"),
                               Get(emotion, "confidence", 0), Get(emotion, "urgency", "low"))
        final == IF fused.risk_level = "SAFE" /\ found # <<>> THEN "MEDIUM"
                 ELSE fused.risk_level
    IN  [risk_level |-> final,
         confidence |-> fused.confidence,
         triggers |-> found,
         recommendation |-> get_risk_recommendation(final, emotion)]

\* lines 301-335: the assessment detect_crisis_with_emotion builds from the
\* keyword tier, the emotion signal and the triggers found
Assessment(risk, emotion, found) ==
    LET fused == EmotionFusion(risk, Get(emotion, "primary_emotion", "neutral"),
                               Get(emotion, "confidence", 0), Get(emotion, "urgency", "low"))
    IN  [risk_level |-> fused.risk_level,
         confidence |-> fused.confidence,
         triggers |-> found,
         recommendation |-> get_risk_recommendation(fused.risk_level, emotion)]

\* lines 291-340 with `found` for what identify_triggers returns and
\* `signals` for the signals the caller may pass: emotion_data is first read
\* here, so the signal is drawn here; the call ends by returning the
\* assessment or by raising out of the comparison of the confidence
FusionOf(found, signals) ==
    /\ pc = "fusion"
    /\ triggers' = found
    /\ \E emotion \in signals :
        /\ emotion_data' = emotion
        /\ primary_emotion' = Get(emotion, "primary_emotion", "neutral")
        /\ emotion_confidence' = Get(emotion, "confidence", 0)
        /\ urgency' = Get(emotion, "urgency", "low")
        /\ IF ConfidenceComparisonRaises(keyword_risk, primary_emotion',
                                         emotion_confidence')
           THEN /\ pc' = "raised"
                /\ UNCHANGED <<risk_level, confidence, recommendation>>
           ELSE LET result == Assessment(keyword_risk, emotion, triggers')
                IN  /\ risk_level' = result.risk_level
                    /\ confidence' = result.confidence
                    /\ recommendation' = result.recommendation
                    /\ pc' = "done"
    /\ UNCHANGED <<crisis_keywords, metaphorical_contexts, message, nlp_fails,
                   risk_original, second_pass, lemmatized_message,
                   risk_lemmatized, keyword_risk, crisis_response, first_call>>
    /\ UNCHANGED <<groq_client, ai_vars, request_vars>>

\* lines 291-340 for any signal a caller may pass
FusionGiven(found) == FusionOf(found, EmotionSignals)

\* lines 291-340: triggers = identify_triggers(message)
Fusion == FusionGiven(identify_triggers(message))

\* get_crisis_response(risk_level), applied to a tier or to any other string
CrisisResponse(level) ==
    /\ pc = "idle"
    /\ risk_level' = level
    /\ crisis_response' = get_crisis_response(level)
    /\ pc' = "resolved"
    /\ UNCHANGED <<crisis_keywords, metaphorical_contexts, message, nlp_fails,
                   risk_original, second_pass, lemmatized_message,
                   risk_lemmatized, keyword_risk, emotion_data, primary_emotion,
                   emotion_confidence, urgency, triggers, confidence,
                   recommendation, first_call>>
    /\ UNCHANGED <<groq_client, ai_vars, request_vars>>

(***************************************************************************)
(* get_ai_response (ai_response.py)                                        *)
(***************************************************************************)
\* max_retries=2 in the signature of get_ai_response
DefaultMaxRetries == 2

\* get_fallback_response(): a fixed text (its first sentences; the source
\* goes on with the emergency numbers)
get_fallback_response ==
    "I apologize, but I'm having trouble connecting right now. Please try again in a moment."

\* What completion.choices[0].message.content may be when the API call
\* returns.
LlmReplies == {"", "   ", " I'm here ", "I hear you", "I am here for you."}

\* How one pass through the try block of lines 113-167 may go: something in
\* it raises (adapt_prompt_to_emotion, the API call, reading the content), or
\* the API call returns a content.
LlmOutcomes ==
    {[raises |-> TRUE, content |-> ""]} \cup
    {[raises |-> FALSE, content |-> reply] : reply \in LlmReplies}

\* get_ai_response(user_message, conversation_history, emotion_data,
\* max_retries) is called on its own
GetAiResponse(msg, retries) ==
    /\ pc = "idle"
    /\ message' = msg
    /\ max_retries' = retries
    /\ retries_given' = retries
    /\ attempts' = 0
    /\ completion' = <<>>
    /\ ai_response' = ""
    /\ pc' = "ai"
    /\ UNCHANGED <<crisis_keywords, metaphorical_contexts, nlp_fails,
                   risk_original, second_pass, lemmatized_message,
                   risk_lemmatized, keyword_risk, emotion_data, primary_emotion,
                   emotion_confidence, urgency, triggers, risk_level, confidence,
                   recommendation, crisis_response, first_call, groq_client,
                   request_vars>>

\* Mutant of AiAttempt: a reply that is too short is retried like a failure.
AiAttempt_RetriesShortReply(outcome) ==
    /\ pc = "ai"
    /\ IF ~groq_client
       THEN /\ ai_response' = get_fallback_response
            /\ pc' = "ai_returned"
            /\ UNCHANGED <<max_retries, attempts, completion>>
       ELSE /\ attempts' = attempts + 1
            /\ completion' = outcome
            /\ LET text == Strip(outcome.content)
                   failed == outcome.raises \/ text = "" \/ Len(text) < 10
               IN  IF failed
                   THEN IF max_retries > 0
                        THEN /\ max_retries' = max_retries - 1
                             /\ pc' = "ai"
                             /\ UNCHANGED ai_response
                        ELSE /\ ai_response' = get_fallback_response
                             /\ pc' = "ai_returned"
                             /\ UNCHANGED max_retries
                   ELSE /\ ai_response' = text
                        /\ pc' = "ai_returned"
                        /\ UNCHANGED max_retries
    /\ UNCHANGED <<crisis_keywords, metaphorical_contexts, message, nlp_fails,
                   risk_original, second_pass, lemmatized_message,
                   risk_lemmatized, keyword_risk, emotion_data, primary_emotion,
                   emotion_confidence, urgency, triggers, risk_level, confidence,
                   recommendation, crisis_response, first_call, groq_client,
                   retries_given, request_vars>>

\* One execution of the body of get_ai_response (lines 110-184): the fallback
\* at once when groq_client is None; else the try block, which returns the
\* stripped content, or the fallback for a content shorter than 10
\* characters, or raises into the except block, which calls get_ai_response
\* again with max_retries - 1 when max_retries > 0 and returns the fallback
\* otherwise.
AiAttempt(outcome) ==
    /\ pc = "ai"
    /\ IF ~groq_client
       THEN /\ ai_response' = get_fallback_response
            /\ pc' = "ai_returned"
            /\ UNCHANGED <<max_retries, attempts, completion>>
       ELSE /\ attempts' = attempts + 1
            /\ completion' = outcome
            /\ IF outcome.raises
               THEN IF max_retries > 0
                    THEN /\ max_retries' = max_retries - 1
                         /\ pc' = "ai"
                         /\ UNCHANGED ai_response
                    ELSE /\ ai_response' = get_fallback_response
                         /\ pc' = "ai_returned"
                         /\ UNCHANGED max_retries
               ELSE LET text == Strip(outcome.content)
                    IN  /\ ai_response' = IF text = "" \/ Len(text) < 10
                                          THEN get_fallback_response
                                          ELSE text
                        /\ pc' = "ai_returned"
                        /\ UNCHANGED max_retries
    /\ UNCHANGED <<crisis_keywords, metaphorical_contexts, message, nlp_fails,
                   risk_original, second_pass, lemmatized_message,
                   risk_lemmatized, keyword_risk, emotion_data, primary_emotion,
                   emotion_confidence, urgency, triggers, risk_level, confidence,
                   recommendation, crisis_response, first_call, groq_client,
                   retries_given, request_vars>>

\* the body of get_ai_response runs, however the try block goes
AiStep == \E outcome \in LlmOutcomes : AiAttempt(outcome)

(***************************************************************************)
(* send_message (views.py)                                                 *)
(***************************************************************************)
\* len(user_message) > 2000 is refused
MaxMessageLength == 2000

\* the emotion_data of the except branch of lines 97-104 (sentiment_score
\* is read by nothing here and left out)
NeutralEmotion == [primary_emotion |-> "neutral", confidence |-> 0, urgency |-> "low"]

\* lines 92-104: emotion_data = analyze_emotion(user_message), replaced by
\* the neutral signal when the call or the log line that reads
\* emotion_data['primary_emotion'] and emotion_data['confidence']*100 raises
AnalyzedEmotion(signal) ==
    IF /\ "primary_emotion" \in DOMAIN signal
       /\ "confidence" \in DOMAIN signal
       /\ signal.confidence # None
    THEN signal
    ELSE NeutralEmotion

\* the signals send_message may pass to detect_crisis_with_emotion
AnalyzedSignals == {AnalyzedEmotion(signal) : signal \in EmotionSignals}

\* what request.data.get('message', '') may be: a message, bare or padded
\* with white space
RequestMessages == RepeatMessages \cup {" " \o msg \o " " : msg \in RepeatMessages}

\* lines 64-84 and 111 (as far as line 288 of crisis_detection.py): the
\* message is stripped and validated; a refused message is answered 400, an
\* accepted one enters detect_crisis_with_emotion
SendMessage(raw, fails) ==
    /\ pc = "idle"
    /\ in_request' = TRUE
    /\ LET user_message == Strip(raw) IN
        /\ message' = user_message
        /\ IF \/ user_message = ""
              \/ Len(user_message) > MaxMessageLength
              \/ Len(user_message) < 3
           THEN /\ http_response' = [status |-> 400]
                /\ pc' = "responded"
                /\ UNCHANGED <<nlp_fails, risk_original, second_pass,
                               lemmatized_message, risk_lemmatized, keyword_risk>>
           ELSE /\ LET run == detect_crisis_enhanced(user_message, fails) IN
                     /\ keyword_risk' = run.ret
                     /\ risk_original' = run.risk_original
                     /\ second_pass' = run.second_pass
                     /\ lemmatized_message' = run.lemmatized_message
                     /\ risk_lemmatized' = run.risk_lemmatized
                /\ nlp_fails' = fails
                /\ pc' = "fusion"
                /\ UNCHANGED http_response
    /\ UNCHANGED <<crisis_keywords, metaphorical_contexts, emotion_data,
                   primary_emotion, emotion_confidence, urgency, triggers,
                   risk_level, confidence, recommendation, crisis_response,
                   first_call, groq_client, ai_vars, chat_message>>

\* lines 92-111: detect_crisis_with_emotion(user_message, emotion_data) with
\* the analyzed signal
AnalyzeAndDetect == FusionOf(identify_triggers(message), AnalyzedSignals)

\* the Response of lines 156-165, without the emotion and the timestamp
CrisisReply(level, bundle) ==
    [status |-> 201, response |-> bundle.response, resources |-> bundle.resources,
     risk_level |-> level, is_crisis |-> TRUE,
     immediate_action_required |-> bundle.immediate_action_required]

\* the Response of lines 224-231 and 238-251
AiReply(level, text) ==
    [status |-> 201, response |-> text, resources |-> <<>>,
     risk_level |-> level, is_crisis |-> FALSE,
     immediate_action_required |-> FALSE]

\* Variant of CrisisBranch: the create of line 142 is guarded as the one of
\* line 210 is, and the bundle is returned also when the row is not saved.
CrisisBranch_SaveGuarded(db_fails) ==
    /\ pc \in {"done", "raised"}
    /\ in_request
    /\ LET level == IF pc = "raised" THEN "SAFE" ELSE risk_level IN
        /\ risk_level' = level
        /\ IF level \in {"CRITICAL", "HIGH"}
           THEN /\ crisis_response' = get_crisis_response(level)
                /\ chat_message' = IF db_fails THEN <<>>
                                   ELSE [risk_level |-> level,
                                         response |-> crisis_response'.response]
                /\ http_response' = CrisisReply(level, crisis_response')
                /\ pc' = "responded"
                /\ UNCHANGED ai_vars
           ELSE /\ max_retries' = DefaultMaxRetries
                /\ retries_given' = DefaultMaxRetries
                /\ attempts' = 0
                /\ completion' = <<>>
                /\ ai_response' = ""
                /\ pc' = "ai"
                /\ UNCHANGED <<crisis_response, chat_message, http_response>>
    /\ UNCHANGED <<crisis_keywords, metaphorical_contexts, message, nlp_fails,
                   risk_original, second_pass, lemmatized_message,
                   risk_lemmatized, keyword_risk, emotion_data, primary_emotion,
                   emotion_confidence, urgency, triggers, confidence,
                   recommendation, first_call, groq_client, in_request>>

\* lines 110-189: risk_level is the assessment's, or SAFE when the
\* detection raised; for CRITICAL and HIGH the bundle is fetched, the row is
\* created (an exception of ChatMessage.objects.create leaves the view: the
\* create of line 142 is in no try block) and the bundle is returned; for
\* MEDIUM and SAFE get_ai_response is called with its default max_retries
CrisisBranch(db_fails) ==
    /\ pc \in {"done", "raised"}
    /\ in_request
    /\ LET level == IF pc = "raised" THEN "SAFE" ELSE risk_level IN
        /\ risk_level' = level
        /\ IF level \in {"CRITICAL", "HIGH"}
           THEN /\ crisis_response' = get_crisis_response(level)
                /\ IF db_fails
                   THEN /\ http_response' = [status |-> 500]
                        /\ UNCHANGED chat_message
                   ELSE /\ chat_message' = [risk_level |-> level,
                                            response |-> crisis_response'.response]
                        /\ http_response' = CrisisReply(level, crisis_response')
                /\ pc' = "responded"
                /\ UNCHANGED ai_vars
           ELSE /\ max_retries' = DefaultMaxRetries
                /\ retries_given' = DefaultMaxRetries
                /\ attempts' = 0
                /\ completion' = <<>>
                /\ ai_response' = ""
                /\ pc' = "ai"
                /\ UNCHANGED <<crisis_response, chat_message, http_response>>
    /\ UNCHANGED <<crisis_keywords, metaphorical_contexts, message, nlp_fails,
                   risk_original, second_pass, lemmatized_message,
                   risk_lemmatized, keyword_risk, emotion_data, primary_emotion,
                   emotion_confidence, urgency, triggers, confidence,
                   recommendation, first_call, groq_client, in_request>>

\* lines 209-251: get_ai_response has returned; the row is created, and the
\* reply is returned whether or not the create raised
SaveAndRespond(db_fails) ==
    /\ pc = "ai_returned"
    /\ in_request
    /\ chat_message' = IF db_fails THEN <<>>
                       ELSE [risk_level |-> risk_level, response |-> ai_response]
    /\ http_response' = AiReply(risk_level, ai_response)
    /\ pc' = "responded"
    /\ UNCHANGED <<crisis_keywords, metaphorical_contexts, message, nlp_fails,
                   risk_original, second_pass, lemmatized_message,
                   risk_lemmatized, keyword_risk, emotion_data, primary_emotion,
                   emotion_confidence, urgency, triggers, risk_level, confidence,
                   recommendation, crisis_response, first_call, groq_client,
                   ai_vars, in_request>>

\* the locals of a call that has ended
FreshLocals ==
    /\ message' = ""
    /\ nlp_fails' = FALSE
    /\ risk_original' = ""
    /\ second_pass' = FALSE
    /\ lemmatized_message' = ""
    /\ risk_lemmatized' = ""
    /\ keyword_risk' = ""
    /\ emotion_data' = <<>>
    /\ primary_emotion' = ""
    /\ emotion_confidence' = 0
    /\ urgency' = ""
    /\ triggers' = <<>>
    /\ risk_level' = ""
    /\ confidence' = 0
    /\ recommendation' = ""
    /\ crisis_response' = <<>>
    /\ max_retries' = 0
    /\ retries_given' = 0
    /\ attempts' = 0
    /\ completion' = <<>>
    /\ ai_response' = ""
    /\ in_request' = FALSE
    /\ http_response' = <<>>
    /\ chat_message' = <<>>

\* the call has ended (by returning or by raising) and the caller has taken
\* the outcome; the next call starts from fresh locals
Return ==
    /\ \/ pc \in {"done", "raised", "resolved", "ai_returned"} /\ ~in_request
       \/ pc = "responded"
    /\ pc' = "idle"
    /\ FreshLocals
    /\ UNCHANGED <<crisis_keywords, metaphorical_contexts, first_call, groq_client>>

Next ==
    \/ \E msg \in Messages, fails \in BOOLEAN : KeywordPass(msg, fails)
    \/ Fusion
    \/ \E level \in ResponseLevels : CrisisResponse(level)
    \/ Return

Spec == Init /\ [][Next]_vars

(***************************************************************************)
(* Repeated calls of detect_crisis_enhanced (the loop of lines 552-553)    *)
(***************************************************************************)
\* detect_crisis_enhanced has returned and the loop goes on to its next
\* message; `remember` is whether the history keeps this call
NextMessage(remember) ==
    /\ pc = "fusion"
    /\ remember => DOMAIN first_call = {}
    /\ first_call' = IF remember
                     THEN [message |-> message, nlp_fails |-> nlp_fails,
                           tier |-> keyword_risk]
                     ELSE first_call
    /\ pc' = "idle"
    /\ FreshLocals
    /\ UNCHANGED <<crisis_keywords, metaphorical_contexts, groq_client>>

NextRepeat ==
    \/ \E msg \in RepeatMessages, fails \in BOOLEAN : KeywordPass(msg, fails)
    \/ \E remember \in BOOLEAN : NextMessage(remember)

SpecRepeat == Init /\ [][NextRepeat]_vars

(***************************************************************************)
(* Calls of detect_crisis_with_emotion in which identify_triggers may      *)
(* return any list                                                         *)
(***************************************************************************)
NextAnyTriggers ==
    \/ \E msg \in RepeatMessages, fails \in BOOLEAN : KeywordPass(msg, fails)
    \/ \E found \in TriggerLists : FusionGiven(found)
    \/ Return

SpecAnyTriggers == Init /\ [][NextAnyTriggers]_vars

(***************************************************************************)
(* Calls of get_ai_response on its own                                     *)
(***************************************************************************)
NextAi ==
    \/ \E msg \in RepeatMessages, retries \in 0..MaxRetries : GetAiResponse(msg, retries)
    \/ AiStep
    \/ Return

\* A call that has started goes on: Python runs the body, and the API call
\* returns or raises (the client has a request timeout).
SpecAi == InitAnyClient /\ [][NextAi]_vars /\ WF_vars(AiStep)

(***************************************************************************)
(* Requests to send_message                                                *)
(***************************************************************************)
NextSend ==
    \/ \E raw \in RequestMessages, fails \in BOOLEAN : SendMessage(raw, fails)
    \/ AnalyzeAndDetect
    \/ \E db_fails \in BOOLEAN : CrisisBranch(db_fails)
    \/ AiStep
    \/ \E db_fails \in BOOLEAN : SaveAndRespond(db_fails)
    \/ Return

SpecSend == InitAnyClient /\ [][NextSend]_vars

(***************************************************************************)
(* Properties                                                              *)
(***************************************************************************)
\* The applications of detect_crisis_level the current call has made, as
\* (text, tier returned) pairs: line 178 on the message, line 188 on the
\* lemmatized message.
ScorerRuns ==
    (IF risk_original # "" THEN {<<message, risk_original>>} ELSE {})
    \cup (IF second_pass THEN {<<lemmatized_message, risk_lemmatized>>} ELSE {})

TooShort(text) == text = "" \/ Len(Strip(text)) < 3

EmotionIs(key, value) == key \in DOMAIN emotion_data /\ emotion_data[key] = value

\* C1: the tier detect_crisis_enhanced returns is no less severe than the
\* scorer's tier on the raw message and no less severe than the scorer's tier
\* on the lemmatized message.
C1_AtLeastEitherPass ==
    pc = "fusion" =>
        /\ Index(keyword_risk) >= Index(detect_crisis_level(message))
        /\ Index(keyword_risk) >=
               Index(detect_crisis_level(lemmatize_text(message, nlp_fails)))

\* C2: the tier detect_crisis_enhanced returns is at least as severe as the
\* tier detect_crisis_level returns on the raw message.
C2_AtLeastRawPass ==
    pc = "fusion" => Index(keyword_risk) >= Index(detect_crisis_level(message))

\* C2 witness: the second pass ran and found less than the raw pass did.
C2_Witness ==
    /\ pc = "fusion"
    /\ second_pass
    /\ risk_original = "MEDIUM"
    /\ risk_lemmatized = "SAFE"

\* C3: the final risk_level differs from the keyword tier by at most one
\* severity step.
C3_FusionAtMostOneStep ==
    pc = "done" =>
        /\ Index(risk_level) - Index(keyword_risk) <= 1
        /\ Index(keyword_risk) - Index(risk_level) <= 1

\* C3 witness: a signal without a confidence field moved the tier by one step.
C3_Witness ==
    /\ pc = "done"
    /\ "confidence" \notin DOMAIN emotion_data
    /\ keyword_risk = "SAFE"
    /\ risk_level = "MEDIUM"

\* C4: for a keyword tier of HIGH or CRITICAL the tier is unchanged and the
\* confidence is 0.90 for fear or sadness above 0.6, else 0.75 for anger
\* above 0.7, else 0.60.
C4_HighCriticalRows ==
    (pc = "done" /\ keyword_risk \in {"HIGH", "CRITICAL"}) =>
        LET primary == Get(emotion_data, "primary_emotion", "neutral")
            conf == Get(emotion_data, "confidence", 0)
        IN  /\ risk_level = keyword_risk
            /\ confidence = IF primary \in {"fear", "sadness"} /\ conf > 60 THEN 90
                            ELSE IF primary = "anger" /\ conf > 70 THEN 75
                            ELSE 60

\* C4 witness: anger at exactly 0.7 on a CRITICAL keyword tier gave 0.60.
C4_Witness ==
    /\ pc = "done"
    /\ keyword_risk = "CRITICAL"
    /\ EmotionIs("primary_emotion", "anger")
    /\ EmotionIs("confidence", 70)
    /\ confidence = 60

\* C5: for a keyword tier of MEDIUM the result is HIGH with confidence 0.70
\* exactly when urgency is high and the emotion is fear or sadness, and
\* MEDIUM with confidence 0.50 otherwise.
C5_MediumRows ==
    (pc = "done" /\ keyword_risk = "MEDIUM") =>
        LET primary == Get(emotion_data, "primary_emotion", "neutral")
            urg == Get(emotion_data, "urgency", "low")
        IN  IF urg = "high" /\ primary \in {"fear", "sadness"}
            THEN risk_level = "HIGH" /\ confidence = 70
            ELSE risk_level = "MEDIUM" /\ confidence = 50

\* C5 witness: the upgrade happened at an emotion confidence of 0.6.
C5_Witness ==
    /\ pc = "done"
    /\ keyword_risk = "MEDIUM"
    /\ EmotionIs("confidence", 60)
    /\ EmotionIs("urgency", "high")
    /\ risk_level = "HIGH"
    /\ confidence = 70

\* C6: for a keyword tier of SAFE the result is MEDIUM with confidence 0.40
\* exactly when urgency is high and the emotion is fear or sadness, and SAFE
\* with confidence 0.95 otherwise.
C6_SafeRows ==
    (pc = "done" /\ keyword_risk = "SAFE") =>
        LET primary == Get(emotion_data, "primary_emotion", "neutral")
            urg == Get(emotion_data, "urgency", "low")
        IN  IF urg = "high" /\ primary \in {"fear", "sadness"}
            THEN risk_level = "MEDIUM" /\ confidence = 40
            ELSE risk_level = "SAFE" /\ confidence = 95

\* C6 witness: sadness at medium urgency left a SAFE keyword tier SAFE.
C6_Witness ==
    /\ pc = "done"
    /\ keyword_risk = "SAFE"
    /\ EmotionIs("primary_emotion", "sadness")
    /\ EmotionIs("urgency", "medium")
    /\ risk_level = "SAFE"
    /\ confidence = 95

C8_HighPhraseDecides ==
    pc = "fusion" =>
        \A run \in ScorerRuns :
            (/\ ~AnyKeyword("CRITICAL", Lower(run[1]))
             /\ AnyKeyword("HIGH", Lower(run[1]))) =>
                run[2] = IF check_metaphorical_context(Lower(run[1]))
                         THEN "MEDIUM" ELSE "HIGH"

\* C8 witness: a message with a HIGH phrase and a MEDIUM phrase and no
\* metaphor indicator was scored HIGH.
C8_Witness ==
    /\ pc = "fusion"
    /\ risk_original = "HIGH"
    /\ ~AnyKeyword("CRITICAL", Lower(message))
    /\ AnyKeyword("MEDIUM", Lower(message))
    /\ ~check_metaphorical_context(Lower(message))

C10_TooShortIsSafeWithoutTriggers ==
    (pc = "done" /\ TooShort(message)) =>
        /\ keyword_risk = "SAFE"
        /\ triggers = <<>>

\* C10 witness: an assessment of a two-character message padded with
\* whitespace was completed.
C10_Witness ==
    /\ pc = "done"
    /\ message # Strip(message)
    /\ Len(Strip(message)) = 2

\* C11: a failure of the analyzer never aborts an assessment: when the
\* analyzer raises, lemmatize_text returns the original text and
\* detect_crisis_enhanced returns the raw-pass tier; and for every message
\* and every emotion signal the call of detect_crisis_with_emotion raises
\* nothing and returns a complete assessment.
C11_NeverAborts ==
    /\ pc # "raised"
    /\ (pc \in {"fusion", "done"} /\ nlp_fails /\ risk_original # "") =>
          /\ keyword_risk = risk_original
          /\ risk_original \notin {"CRITICAL", "HIGH"} => lemmatized_message = message
    /\ pc = "done" =>
          /\ risk_level \in {"SAFE", "MEDIUM", "HIGH", "CRITICAL"}
          /\ confidence \in {40, 50, 60, 70, 75, 90, 95}
          /\ Len(triggers) <= 5
          /\ recommendation \in {"IMMEDIATE_CRISIS_RESPONSE", "URGENT_SUPPORT_NEEDED",
                                 "ELEVATED_CONCERN", "STANDARD_THERAPEUTIC_RESPONSE"}
          /\ primary_emotion # "" /\ urgency # ""

\* C12: an incomplete or malformed emotion signal is never fatal: an empty
\* signal leaves the keyword tier unchanged with confidence 0.60, 0.50 or
\* 0.95, and a confidence that is present but null is treated as the
\* default 0 instead of raising.
C12_MalformedSignalIsDefaulted ==
    pc \in {"done", "raised"} =>
        /\ pc = "done"
        /\ emotion_data = <<>> =>
              /\ risk_level = keyword_risk
              /\ confidence = IF keyword_risk \in {"HIGH", "CRITICAL"} THEN 60
                              ELSE IF keyword_risk = "MEDIUM" THEN 50 ELSE 95
        /\ EmotionIs("confidence", None) =>
              LET defaulted == EmotionFusion(keyword_risk, primary_emotion, 0, urgency)
              IN  /\ risk_level = defaulted.risk_level
                  /\ confidence = defaulted.confidence

\* The positions of the lexicon in the order CRITICAL, HIGH, MEDIUM, within
\* a tier english before pidgin, within a list in list order; and the
\* positions whose phrase occurs in the lower-cased message.
LexiconLists ==
    << <<"CRITICAL", "english">>, <<"CRITICAL", "pidgin">>,
       <<"HIGH", "english">>, <<"HIGH", "pidgin">>,
       <<"MEDIUM", "english">>, <<"MEDIUM", "pidgin">> >>

PhraseAt(pos) == crisis_keywords[LexiconLists[pos[1]][1]][LexiconLists[pos[1]][2]][pos[2]]

Earlier(p, q) == p[1] < q[1] \/ (p[1] = q[1] /\ p[2] < q[2])

MatchedPositions(text) ==
    LET text_lower == Lower(text)
        ListAt(l) == crisis_keywords[LexiconLists[l][1]][LexiconLists[l][2]]
    IN  UNION { {<<l, i>> : i \in {j \in 1..Len(ListAt(l)) : Contains(ListAt(l)[j], text_lower)}} :
                l \in 1..Len(LexiconLists) }

\* C13: identify_triggers returns at most 5 entries: the first 5 of all the
\* phrases of the lexicon that occur in the message, in lexicon order
\* (whatever else matched, in a metaphorical context or not), each written
\* as <tier>: '<phrase>'.
C13_FirstFiveMatchesInLexiconOrder ==
    (pc = "done" /\ emotion_data = <<>>) =>
        LET matched == MatchedPositions(message)
            n == IF Cardinality(matched) < 5 THEN Cardinality(matched) ELSE 5
        IN  /\ Len(triggers) <= 5
            /\ Len(triggers) = n
            /\ \A k \in 1..n :
                  \E pos \in matched :
                      /\ Cardinality({q \in matched : Earlier(q, pos)}) = k - 1
                      /\ triggers[k] =
                            LexiconLists[pos[1]][1] \o ": '" \o PhraseAt(pos) \o "'"

\* C13 witness: more than five phrases of three tiers matched and five
\* triggers were returned.
C13_Witness ==
    /\ pc = "done"
    /\ emotion_data = <<>>
    /\ Len(triggers) = 5
    /\ Cardinality(MatchedPositions(message)) > 5
    /\ \A level \in {"CRITICAL", "HIGH", "MEDIUM"} : AnyKeyword(level, Lower(message))

\* C14: get_crisis_response returns None exactly when its argument is not
\* CRITICAL, HIGH or MEDIUM (SAFE or a string that is no tier); otherwise it
\* returns a bundle with a non-empty response and a non-empty list of
\* resources, escalate being true exactly for CRITICAL and HIGH and
\* immediate_action_required exactly for CRITICAL.
C14_BundleExactlyForCrisisTiers ==
    pc = "resolved" =>
        IF risk_level \in {"CRITICAL", "HIGH", "MEDIUM"}
        THEN /\ DOMAIN crisis_response =
                    {"response", "resources", "escalate", "immediate_action_required"}
             /\ crisis_response.response # ""
             /\ crisis_response.resources # <<>>
             /\ \A i \in 1..Len(crisis_response.resources) :
                    /\ crisis_response.resources[i].name # ""
                    /\ crisis_response.resources[i].contact # ""
             /\ crisis_response.escalate = (risk_level \in {"CRITICAL", "HIGH"})
             /\ crisis_response.immediate_action_required = (risk_level = "CRITICAL")
        ELSE DOMAIN crisis_response = {}

\* C14 witness: get_crisis_response returned the MEDIUM bundle, which
\* neither escalates nor requires immediate action.
C14_Witness ==
    /\ pc = "resolved"
    /\ risk_level = "MEDIUM"
    /\ DOMAIN crisis_response # {}
    /\ ~crisis_response.escalate
    /\ ~crisis_response.immediate_action_required

\* C15: the recommendation of a returned assessment is the one of its final
\* risk_level: IMMEDIATE_CRISIS_RESPONSE for CRITICAL, URGENT_SUPPORT_NEEDED
\* for HIGH, ELEVATED_CONCERN for MEDIUM, STANDARD_THERAPEUTIC_RESPONSE for
\* SAFE, whatever the keyword tier and the emotion signal were.
C15_RecommendationOfFinalTier ==
    pc = "done" =>
        recommendation =
            CASE risk_level = "CRITICAL" -> "IMMEDIATE_CRISIS_RESPONSE"
              [] risk_level = "HIGH"     -> "URGENT_SUPPORT_NEEDED"
              [] risk_level = "MEDIUM"   -> "ELEVATED_CONCERN"
              [] risk_level = "SAFE"     -> "STANDARD_THERAPEUTIC_RESPONSE"

\* C15 witness: a MEDIUM keyword tier was upgraded by the fusion and the
\* assessment recommends URGENT_SUPPORT_NEEDED.
C15_Witness ==
    /\ pc = "done"
    /\ keyword_risk = "MEDIUM"
    /\ risk_level = "HIGH"
    /\ recommendation = "URGENT_SUPPORT_NEEDED"

\* C16: whatever calls were made before, a call of detect_crisis_enhanced
\* on a message returns the tier an earlier call on the same message
\* returned (the analyzer behaving on the message as it did then).
C16_SameTierAsEarlierCall ==
    (/\ pc = "fusion"
     /\ DOMAIN first_call # {}
     /\ first_call.message = message
     /\ first_call.nlp_fails = nlp_fails) =>
        keyword_risk = first_call.tier

\* C16 witness: a message that an earlier call scored CRITICAL through its
\* lemmatized form has been scored again.
C16_Witness ==
    /\ pc = "fusion"
    /\ DOMAIN first_call # {}
    /\ first_call.message = message
    /\ first_call.nlp_fails = nlp_fails
    /\ first_call.tier = "CRITICAL"
    /\ second_pass
    /\ keyword_risk = "CRITICAL"

\* C17: detect_crisis_level classifies as SAFE a text in which a CRITICAL
\* phrase stands together with an academic indicator (the hyperbole of the
\* test table, "Studying is making me want to die lol").
C17_CriticalHyperboleIsSafe ==
    pc = "fusion" =>
        \A run \in ScorerRuns :
            (/\ AnyKeyword("CRITICAL", Lower(run[1]))
             /\ \E i \in 1..Len(metaphorical_contexts.academic) :
                    Contains(metaphorical_contexts.academic[i], Lower(run[1]))) =>
                run[2] = "SAFE"

\* The occurrences of indicators in a lower-cased text, as (category,
\* index) pairs, and the most severe tier that has a phrase in it.
IndicatorOccurrences(text_lower) ==
    UNION { {<<key, i>> : i \in {j \in 1..Len(metaphorical_contexts[key]) :
                                    Contains(metaphorical_contexts[key][j], text_lower)}} :
            key \in DOMAIN metaphorical_contexts }

MatchedTier(text_lower) ==
    IF AnyKeyword("CRITICAL", text_lower) THEN "CRITICAL"
    ELSE IF AnyKeyword("HIGH", text_lower) THEN "HIGH"
    ELSE IF AnyKeyword("MEDIUM", text_lower) THEN "MEDIUM"
    ELSE "SAFE"

\* C18: check_metaphorical_context is true of a lower-cased text exactly
\* when at least one indicator of some category occurs in it, and the
\* scorer's result depends on the indicators only through that: with no
\* occurrence the matched tier, with one or more (of any category, anywhere)
\* the tier one step below it.
C18_AnyIndicatorDowngradesOneStep ==
    pc = "fusion" =>
        \A run \in ScorerRuns :
            LET text_lower == Lower(run[1])
                occurs == IndicatorOccurrences(text_lower) # {}
                tier == MatchedTier(text_lower)
            IN  /\ check_metaphorical_context(text_lower) <=> occurs
                /\ ~TooShort(run[1]) =>
                      run[2] = IF ~occurs \/ tier = "SAFE" THEN tier
                               ELSE risk_levels[Index(tier) - 1]

\* C18 witness: a CRITICAL phrase was scored HIGH because of indicators of
\* two categories other than the academic one.
C18_Witness ==
    /\ pc = "fusion"
    /\ second_pass
    /\ risk_lemmatized = "HIGH"
    /\ MatchedTier(Lower(lemmatized_message)) = "CRITICAL"
    /\ {occ[1] : occ \in IndicatorOccurrences(Lower(lemmatized_message))} =
          {"entertainment", "positive"}

\* str.upper(), to re-case a message
UpperChar(c) ==
    IF \E i \in 1..Len(LowerLetters) : CharAt(LowerLetters, i) = c
    THEN CharAt(UpperLetters, CHOOSE i \in 1..Len(LowerLetters) : CharAt(LowerLetters, i) = c)
    ELSE c

RECURSIVE Upper(_)
Upper(s) == IF s = "" THEN "" ELSE UpperChar(CharAt(s, 1)) \o Upper(SubSeq(s, 2, Len(s)))

\* a message in all upper-case and in all lower-case letters
Recasings(text) == {Upper(text), Lower(text)}

\* C19: matching does not depend on letter case: on a message written all
\* in upper-case or all in lower-case letters, detect_crisis_level (with its
\* downgrade in a metaphorical context) returns the tier and
\* identify_triggers the triggers they returned for the message itself.
C19_RecasingChangesNothing ==
    /\ (pc = "fusion" /\ risk_original # "") =>
          \A recased \in Recasings(message) : detect_crisis_level(recased) = risk_original
    /\ (pc = "done" /\ emotion_data = <<>>) =>
          \A recased \in Recasings(message) : identify_triggers(recased) = triggers

\* C19 witness: a message of mixed case with a CRITICAL phrase in a
\* metaphorical context was scored and its triggers were extracted.
C19_Witness ==
    /\ pc = "done"
    /\ emotion_data = <<>>
    /\ message \notin Recasings(message)
    /\ risk_original = "HIGH"
    /\ AnyKeyword("CRITICAL", Lower(message))
    /\ triggers # <<>>

\* every phrase of the lexicon and every indicator of the context categories
LexiconEntries ==
    UNION { {crisis_keywords[level][lang][i] : i \in 1..Len(crisis_keywords[level][lang])} :
            level \in DOMAIN crisis_keywords, lang \in {"english", "pidgin"} }
    \cup UNION { {metaphorical_contexts[key][i] : i \in 1..Len(metaphorical_contexts[key])} :
                 key \in DOMAIN metaphorical_contexts }

\* C20: every phrase and every indicator of the lexicon is written in
\* lower-case letters, so that the search in a lower-cased message can find
\* it: the message made of the entry itself is one in which it is found.
C20_EveryEntryIsLowerCase ==
    \A entry \in LexiconEntries :
        /\ entry = Lower(entry)
        /\ Contains(entry, Lower(entry))

\* C21: the triggers do not influence the decision: whatever list
\* identify_triggers returns, the assessment has the risk_level, the
\* confidence and the recommendation of the run on the same message and
\* emotion signal in which it returns the list of the phrases found.
C21_DecisionIgnoresTriggers ==
    pc = "done" =>
        LET other == Assessment(keyword_risk, emotion_data, identify_triggers(message))
        IN  /\ risk_level = other.risk_level
            /\ confidence = other.confidence
            /\ recommendation = other.recommendation

\* C21 witness: an assessment of SAFE was returned with a list of triggers
\* that is not the one found in the message, which has none.
C21_Witness ==
    /\ pc = "done"
    /\ triggers # <<>>
    /\ identify_triggers(message) = <<>>
    /\ ~TooShort(message)
    /\ risk_level = "SAFE"
    /\ confidence = 95

C24_SkippedPassChangesNothing ==
    (pc = "fusion" /\ ~TooShort(message) /\ risk_original \in {"SAFE", "MEDIUM"}) =>
        /\ ~second_pass =>
              /\ lemmatized_message = Lower(message)
              /\ keyword_risk =
                    MoreSevere(risk_original, detect_crisis_level(lemmatized_message))
        /\ (nlp_fails /\ second_pass) =>
              /\ lemmatized_message = message
              /\ risk_lemmatized = risk_original
              /\ keyword_risk = risk_original

\* C24 witness: a message with a MEDIUM phrase that the normalizer leaves as
\* its lower-cased text, so that the second pass was skipped.
C24_Witness ==
    /\ pc = "fusion"
    /\ ~nlp_fails
    /\ risk_original = "MEDIUM"
    /\ ~second_pass
    /\ lemmatized_message = Lower(message)
    /\ keyword_risk = "MEDIUM"

\* the normalizer failed on a message with a capital letter and the second
\* pass scored the text handed back
C24_FailedNormalizerReached ==
    /\ pc = "fusion"
    /\ nlp_fails
    /\ second_pass
    /\ risk_original = "MEDIUM"

\* C25: the scorer returns before scanning only for texts of fewer than 3
\* trimmed characters, the threshold of the reconciler: no text that the
\* reconciler hands to detect_crisis_level (the message, and the lemmatized
\* text when the second pass is made) is returned for without a scan.
C25_ScorerThresholdIsTheReconcilers ==
    (pc = "fusion" /\ ~TooShort(message)) =>
        /\ ~ScorerReturnsAtOnce(message)
        /\ (second_pass /\ ~TooShort(lemmatized_message)) =>
              ~ScorerReturnsAtOnce(lemmatized_message)

\* the tier a trigger string names before its colon
TriggerTier(trigger) ==
    IF Len(trigger) >= 8 /\ SubSeq(trigger, 1, 8) = "CRITICAL" THEN "CRITICAL"
    ELSE IF Len(trigger) >= 4 /\ SubSeq(trigger, 1, 4) = "HIGH" THEN "HIGH"
    ELSE IF Len(trigger) >= 6 /\ SubSeq(trigger, 1, 6) = "MEDIUM" THEN "MEDIUM"
    ELSE "SAFE"

\* C26: whenever the keyword tier of an assessment is MEDIUM, HIGH or
\* CRITICAL, its triggers list is non-empty and holds a phrase of a tier at
\* least as severe as the keyword tier, also when only the normalized pass
\* found the tier.
C26_TierHasItsTrigger ==
    (pc = "done" /\ keyword_risk \in {"MEDIUM", "HIGH", "CRITICAL"}) =>
        /\ triggers # <<>>
        /\ \E i \in 1..Len(triggers) :
              Index(TriggerTier(triggers[i])) >= Index(keyword_risk)

\* C27: fusion never lowers severity: the final risk_level is at least the
\* keyword tier, and it is CRITICAL exactly when the keyword tier is CRITICAL
\* (no emotion signal produces CRITICAL or removes it).
C27_FusionNeverLowers ==
    pc = "done" =>
        /\ Index(risk_level) >= Index(keyword_risk)
        /\ risk_level = "CRITICAL" <=> keyword_risk = "CRITICAL"

\* C27 witness: the strongest signal (sadness, high urgency, confidence above
\* both thresholds) met a HIGH keyword tier, and the final tier is HIGH.
C27_Witness ==
    /\ pc = "done"
    /\ keyword_risk = "HIGH"
    /\ primary_emotion = "sadness" /\ urgency = "high" /\ emotion_confidence = 71
    /\ risk_level = "HIGH"

\* whether a phrase is an element of one of the two lists of a tier
IsEntry(level, phrase) == \E i \in 1..Len(Keywords(level)) : Keywords(level)[i] = phrase

\* C28: lexicon integrity: 'too much to handle' and 'nobody care' are each an
\* entry of the MEDIUM tier, and identify_triggers never reports the same
\* phrase twice for one message.
C28_LexiconIntegrity ==
    pc = "done" =>
        /\ IsEntry("MEDIUM", "too much to handle")
        /\ IsEntry("MEDIUM", "nobody care")
        /\ \A i, j \in 1..Len(triggers) : i # j => triggers[i] # triggers[j]

\* the part of C28 about triggers alone
C28_NoTriggerTwice ==
    pc = "done" => \A i, j \in 1..Len(triggers) : i # j => triggers[i] # triggers[j]

\* how far a call of get_ai_response may be, and what it has returned
AiCallInOrder ==
    /\ pc = "ai" =>
          /\ max_retries >= 0
          /\ max_retries = retries_given - attempts
          /\ completion # <<>> => completion.raises
          /\ ai_response = ""
    /\ pc = "ai_returned" =>
          /\ ai_response # ""
          /\ ~groq_client => (attempts = 0 /\ ai_response = get_fallback_response)
          /\ groq_client =>
                /\ attempts >= 1
                /\ attempts = retries_given - max_retries + 1
                /\ completion.raises =>
                      /\ attempts = retries_given + 1
                      /\ ai_response = get_fallback_response
                /\ (~completion.raises /\ Len(Strip(completion.content)) < 10) =>
                      ai_response = get_fallback_response
                /\ (~completion.raises /\ Len(Strip(completion.content)) >= 10) =>
                      ai_response = Strip(completion.content)

\* C29: get_ai_response always ends by returning a string: with every
\* attempt failing it makes exactly max_retries + 1 attempts, the retry
\* counter going down by one at each failure, and returns the fallback; with
\* no client it returns the fallback without an attempt; a reply shorter than
\* 10 characters gives the fallback without a retry.
C29_AlwaysReturnsAString ==
    /\ []AiCallInOrder
    /\ (pc = "ai") ~> (pc = "ai_returned")

\* C29 witness: a call with the default max_retries of 2 failed three times
\* and returned the fallback.
C29_Witness ==
    /\ pc = "ai_returned"
    /\ groq_client
    /\ retries_given = DefaultMaxRetries
    /\ attempts = 3
    /\ completion.raises
    /\ ai_response = get_fallback_response

\* a reply too short was answered with the fallback while retries were left
C29_ShortReplyReached ==
    /\ pc = "ai_returned"
    /\ groq_client
    /\ ~completion.raises
    /\ attempts = 1
    /\ max_retries = 2
    /\ ai_response = get_fallback_response

\* the request was answered with the canned crisis bundle and the LLM was
\* not called
CrisisBundleReturned ==
    /\ http_response.status = 201
    /\ http_response.is_crisis
    /\ http_response.resources # <<>>
    /\ attempts = 0
    /\ ai_response = ""

\* the request was answered on the LLM path
AiReplyReturned ==
    /\ http_response.status = 201
    /\ ~http_response.is_crisis
    /\ ai_response # ""
    /\ http_response.response = ai_response

\* C30: a valid message gets the crisis bundle (is_crisis true, resources
\* attached, LLM never called) if and only if the final risk level is HIGH or
\* CRITICAL; for MEDIUM and SAFE the LLM path is taken with is_crisis false;
\* a request whose detection raised completes with risk level SAFE; and the
\* risk_level stored with the chat message is the one returned.
C30_CrisisBundleIffHighOrCritical ==
    (pc = "responded" /\ http_response.status # 400) =>
        /\ risk_level \in {"HIGH", "CRITICAL"} <=> CrisisBundleReturned
        /\ risk_level \in {"MEDIUM", "SAFE"} => AiReplyReturned
        /\ recommendation = "" =>
              (http_response.status = 201 /\ http_response.risk_level = "SAFE")
        /\ chat_message # <<>> =>
              (http_response.status = 201
               /\ chat_message.risk_level = http_response.risk_level)

\* the parts of C30 other than the bundle being returned for HIGH and
\* CRITICAL: the bundle is returned for no other level, MEDIUM and SAFE take
\* the LLM path, and a stored risk_level is the one returned
C30_ExceptWhenTheCreateRaises ==
    (pc = "responded" /\ http_response.status \notin {400, 500}) =>
        /\ risk_level \in {"HIGH", "CRITICAL"} <=> CrisisBundleReturned
        /\ risk_level \in {"MEDIUM", "SAFE"} => AiReplyReturned
        /\ chat_message # <<>> => chat_message.risk_level = http_response.risk_level

====
